---- MODULE Spec2Model ----
(***************************************************************************)
(* Model of the bitfield-access crate (src/src/lib.rs): bitmask,           *)
(* BitfieldAccess::read_field and BitfieldAccess::write_field.             *)
(*                                                                         *)
(* Representation.  A buffer is a sequence of bytes (integers 0..255),     *)
(* 1-indexed here, so the code's data[k] is data[k + 1].  A value of an    *)
(* unsigned type T of N bits is the set of the positions of its 1 bits,    *)
(* a subset of 0..N-1 with position 0 the least significant bit: the       *)
(* value is the sum of 2^b over its members.  (Values of 64 and 128 bits   *)
(* do not fit the model checker's integers.)  & is intersection, | is      *)
(* union, ! is complement within 0..N-1, shifts move the positions and     *)
(* drop those that leave 0..N-1.                                           *)
(*                                                                         *)
(* usize arithmetic.  Indices are small naturals.  A subtraction that      *)
(* goes below zero panics when the build has overflow checks (debug) and   *)
(* wraps modulo 2^UsizeBits otherwise (release); build records which.      *)
(* A wrapped value is never stored: each place it can arise is a branch    *)
(* that states what the code does with the wrapped value.                  *)
(***************************************************************************)
EXTENDS Integers, Sequences, FiniteSets, TLC

MaxLen == 9
MaxCalls == 2

UsizeBits == 64

TypeWidths == {8, 16, 32, 64, 128}

Builds == {"debug", "release"}

OverflowChecks(b) == b = "debug"

Min(a, b) == IF a <= b THEN a ELSE b

-----------------------------------------------------------------------------
(* Bit-vector operations of PrimInt on the set-of-positions representation *)

ByteBits(b) == {k \in 0..7 : (b \div (2 ^ k)) % 2 = 1}

BitsByte(s) ==
  LET f[k \in 0..8] == IF k = 8 THEN 0
                       ELSE (IF k \in s THEN 2 ^ k ELSE 0) + f[k + 1]
  IN f[0]

AllOnes(N) == 0..(N - 1)

Shl(v, k, N) == {b + k : b \in v} \cap (0..(N - 1))

Shr(v, k) == {b - k : b \in {x \in v : x >= k}}

BitNot(v, N) == (0..(N - 1)) \ v

ULe(a, b) == \A x \in a \ b : \E y \in b \ a : y > x

WrappingShr(value, k, N) == Shr(value, k % N)

CheckedShr(value, k, N) == IF k >= N THEN {} ELSE Shr(value, k)

-----------------------------------------------------------------------------
(* bitmask::<T>(bit_width), T of N bits.  bit_width is a usize that did    *)
(* not wrap (the callers branch on a wrapped width before calling).        *)

BitmaskWide(N, bit_width, b) ==
  IF bit_width > N THEN [panic |-> "assert", v |-> {}]
  ELSE IF bit_width >= UsizeBits
    THEN IF OverflowChecks(b)
           THEN [panic |-> "overflow", v |-> {}]
           ELSE [panic |-> "none", v |-> 0..((bit_width % UsizeBits) - 1)]
    ELSE [panic |-> "none", v |-> 0..(bit_width - 1)]

BitmaskNoAssert(N, bit_width, b) ==
  IF bit_width >= N THEN [panic |-> "none", v |-> AllOnes(N)]
  ELSE IF bit_width >= UsizeBits
    THEN IF OverflowChecks(b)
           THEN [panic |-> "overflow", v |-> {}]
           ELSE [panic |-> "none", v |-> 0..((bit_width % UsizeBits) - 1)]
    ELSE [panic |-> "none", v |-> 0..(bit_width - 1)]

Bitmask(N, bit_width, b) ==
  IF bit_width > N THEN [panic |-> "assert", v |-> {}]
  ELSE IF bit_width = N THEN [panic |-> "none", v |-> AllOnes(N)]
  ELSE IF bit_width >= UsizeBits
    THEN IF OverflowChecks(b)
           THEN [panic |-> "overflow", v |-> {}]
           ELSE [panic |-> "none", v |-> 0..((bit_width % UsizeBits) - 1)]
    ELSE [panic |-> "none", v |-> 0..(bit_width - 1)]

-----------------------------------------------------------------------------
(* Range normalisation: RangeBounds::start_bound / end_bound               *)

Inc(i) == [kind |-> "Included", idx |-> i]
Exc(i) == [kind |-> "Excluded", idx |-> i]
Unb == [kind |-> "Unbounded", idx |-> 0]

StartOf(sb) ==
  CASE sb.kind = "Included" -> sb.idx
    [] sb.kind = "Excluded" -> sb.idx + 1
    [] sb.kind = "Unbounded" -> 0

EndOf(eb, len) ==
  CASE eb.kind = "Included" -> eb.idx + 1
    [] eb.kind = "Excluded" -> eb.idx
    [] eb.kind = "Unbounded" -> len * 8

-----------------------------------------------------------------------------
(* Expressions shared by read_field and write_field                        *)

BitOffset(e) == 7 - ((e - 1) % 8)

FirstByte(s) == s \div 8

LastByte(e) == (e - 1) \div 8

-----------------------------------------------------------------------------
(* read_field::<T>(bitrange), T of N bits                                  *)

ReadShiftNoOffset(i, offset) == 8 * i

ReadShift(i, offset) == 8 * i - offset

NoRead == [panic |-> "none", v |-> {}, touched |-> {}]

RECURSIVE ReadLoop(_, _, _, _, _, _, _, _)
ReadLoop(d, N, last_byte, offset, i, num_bytes, acc, b) ==
  IF i >= num_bytes THEN acc
  ELSE LET sh == ReadShift(i, offset)
           k == last_byte - i
       IN IF sh >= N /\ OverflowChecks(b)
            THEN [acc EXCEPT !.panic = "overflow"]
            ELSE ReadLoop(d, N, last_byte, offset, i + 1, num_bytes,
                   [acc EXCEPT !.v = @ \cup Shl(ByteBits(d[k + 1]), sh % N, N),
                               !.touched = @ \cup {k}], b)

ReadField(d, N, s, e, b) ==
  IF e < s
    THEN [NoRead EXCEPT !.panic = IF OverflowChecks(b) THEN "overflow" ELSE "assert"]
  ELSE IF e - s > N THEN [NoRead EXCEPT !.panic = "assert"]
  ELSE IF e = 0
    THEN [NoRead EXCEPT !.panic = IF OverflowChecks(b) THEN "overflow" ELSE "index"]
  ELSE
    LET first_byte == FirstByte(s)
        last_byte == LastByte(e)
        wraps == last_byte < first_byte
        num_bytes == IF wraps THEN 0 ELSE last_byte - first_byte + 1
        offset == BitOffset(e)
        mask == Bitmask(N, e - s, b)
    IN IF wraps /\ OverflowChecks(b) THEN [NoRead EXCEPT !.panic = "overflow"]
       ELSE IF mask.panic # "none" THEN [NoRead EXCEPT !.panic = mask.panic]
       ELSE IF last_byte >= Len(d) THEN [NoRead EXCEPT !.panic = "index"]
       ELSE LET seed == [panic |-> "none",
                         v |-> Shr(ByteBits(d[last_byte + 1]), offset),
                         touched |-> {last_byte}]
                r == ReadLoop(d, N, last_byte, offset, 1, num_bytes, seed, b)
            IN [r EXCEPT !.v = @ \cap mask.v]

-----------------------------------------------------------------------------
(* write_field::<T>(bitrange, value), T of N bits                          *)

ChunkWidthNoMin(bit_offset, e, s) == 8 - bit_offset

ChunkWidth(bit_offset, e, s) == Min(8 - bit_offset, e - s)

SpliceToggle(old, new_bits, bit_mask, bit_offset) ==
  LET n == Shl(new_bits, bit_offset, 8) \cap bit_mask
  IN (old \ n) \cup (n \ old)

SpliceNoClear(old, new_bits, bit_mask, bit_offset) ==
  old \cup (Shl(new_bits, bit_offset, 8) \cap bit_mask)

Splice(old, new_bits, bit_mask, bit_offset) ==
  (old \cap BitNot(bit_mask, 8)) \cup (Shl(new_bits, bit_offset, 8) \cap bit_mask)

LoopIndicesAscending(first_byte, last_byte) ==
  [k \in 1..(last_byte - first_byte + 1) |-> first_byte + (k - 1)]

LoopIndices(first_byte, last_byte) ==
  [k \in 1..(last_byte - first_byte + 1) |-> last_byte - (k - 1)]

RECURSIVE WriteLoop(_, _, _, _, _, _)
WriteLoop(w, N, s, idx, n, b) ==
  IF n > Len(idx) THEN w
  ELSE
    LET i == idx[n]
        bit_offset == BitOffset(w.end)
        bit_width == ChunkWidth(bit_offset, w.end, s)
        m8 == Bitmask(8, bit_width, b)
        bit_mask == Shl(m8.v, bit_offset, 8)
        new_bits == w.value \cap AllOnes(8)
    IN IF m8.panic # "none" THEN [w EXCEPT !.panic = m8.panic]
       ELSE IF i >= Len(w.data) THEN [w EXCEPT !.panic = "index"]
       ELSE WriteLoop(
              [panic |-> "none",
               data |-> [w.data EXCEPT ![i + 1] =
                           BitsByte(Splice(ByteBits(@), new_bits, bit_mask, bit_offset))],
               end |-> w.end - bit_width,
               value |-> CheckedShr(w.value, bit_width, N),
               touched |-> w.touched \cup {i},
               iters |-> w.iters + 1],
              N, s, idx, n + 1, b)

WriteField(d, N, s, e, value, b) ==
  LET w0 == [panic |-> "none", data |-> d, end |-> e, value |-> value,
             touched |-> {}, iters |-> 0]
  IN
  IF e = 0
    THEN IF OverflowChecks(b) THEN [w0 EXCEPT !.panic = "overflow"]
         ELSE IF s > 0 \/ value # {} THEN [w0 EXCEPT !.panic = "assert"]
         ELSE [w0 EXCEPT !.panic = "index"]
  ELSE IF e < s
    THEN [w0 EXCEPT !.panic = IF OverflowChecks(b) THEN "overflow" ELSE "assert"]
  ELSE
    LET first_byte == FirstByte(s)
        last_byte == LastByte(e)
        max_value == Bitmask(N, e - s, b)
    IN IF max_value.panic # "none" THEN [w0 EXCEPT !.panic = max_value.panic]
       ELSE IF ~ULe(value, max_value.v) THEN [w0 EXCEPT !.panic = "assert"]
       ELSE WriteLoop(w0, N, s, LoopIndices(first_byte, last_byte), 1, b)

-----------------------------------------------------------------------------
(* The reference bit numbering the claims are stated against: bit i of a   *)
(* buffer is the bit of byte i / 8 at position 7 - (i % 8) from the LSB.   *)

Bit(B, i) == (B[(i \div 8) + 1] \div (2 ^ (7 - (i % 8)))) % 2

BitsOf(B) == [i \in 1..(8 * Len(B)) |-> Bit(B, i - 1)]

RefRead(B, s, e) == {j \in 0..(e - s - 1) : Bit(B, e - 1 - j) = 1}

RefWrite(r, s, e, val) ==
  [i \in 1..Len(r) |->
     IF s <= i - 1 /\ i - 1 < e
       THEN (IF (e - 1) - (i - 1) \in val THEN 1 ELSE 0)
       ELSE r[i]]

CeilDiv8(w) == (w + 7) \div 8

-----------------------------------------------------------------------------
(* Inputs                                                                  *)

TestBuffer == <<18, 52, 86, 120>>

PatternByte(p, k) ==
  CASE p = "test" -> (18 + 34 * k) % 256
    [] p = "inverse" -> 255 - ((18 + 34 * k) % 256)

BufferLens == {N \div 8 : N \in {M \in TypeWidths : M <= UsizeBits}} \cup {MaxLen}

Buffers == {[k \in 1..len |-> PatternByte(p, k - 1)] :
              len \in BufferLens, p \in {"test", "inverse"}}

FieldWidths(N) == {0 - 8, 0 - 1, 0, 1, 3, 4, 8, 9, 12, N - 1, N, N + 1}

FieldValues(N, w) ==
  {{}, {0}, AllOnes(N)}
    \cup (IF w > 0 /\ w <= N
            THEN {0..(w - 1), {w - 1}, {k \in 0..(w - 1) : k % 3 = 0 \/ k % 8 = 5}}
            ELSE {})
    \cup (IF w >= 0 /\ w < N THEN {{w}} ELSE {})

RangeForms(s, e, len) ==
  {<<Inc(s), Exc(e)>>}
    \cup (IF e >= 1 THEN {<<Inc(s), Inc(e - 1)>>} ELSE {})
    \cup (IF s >= 1 THEN {<<Exc(s - 1), Exc(e)>>} ELSE {})
    \cup (IF s = 0 THEN {<<Unb, Exc(e)>>} ELSE {})
    \cup (IF e = 8 * len THEN {<<Inc(s), Unb>>} ELSE {})
    \cup (IF s = 0 /\ e = 8 * len THEN {<<Unb, Unb>>} ELSE {})

-----------------------------------------------------------------------------
(* State                                                                   *)

VARIABLES
  build,    \* "debug": overflow checks on; "release": wrapping arithmetic
  data,     \* the buffer
  pre,      \* the buffer as it was when the latest call started
  pc,       \* "idle", "returned" (the call returned), "panicked"
  op,       \* the latest call: "none", "read", "write", "bitmask"
  T,        \* bits of the call's integer type
  start,    \* the call's normalised start
  end,      \* the call's normalised end (bitmask: its bit_width)
  value,    \* write_field's value argument
  result,   \* read_field's or bitmask's return value
  fin,      \* write_field's end, value and iteration count when it stopped
  touched,  \* indices of the bytes the call read (read_field) or stored (write_field)
  reason,   \* why the call panicked, "none" if it did not
  calls,    \* calls made so far
  ref       \* reference bit array: the writes so far applied bit by bit

vars == <<build, data, pre, pc, op, T, start, end, value, result, fin,
          touched, reason, calls, ref>>

NoFin == [end |-> 0, value |-> {}, iters |-> 0]

Outcome(panic) == IF panic = "none" THEN "returned" ELSE "panicked"

InitWith(bufs) ==
  /\ build \in Builds
  /\ data \in bufs
  /\ pre = data
  /\ pc = "idle"
  /\ op = "none"
  /\ T = 8
  /\ start = 0
  /\ end = 0
  /\ value = {}
  /\ result = {}
  /\ fin = NoFin
  /\ touched = {}
  /\ reason = "none"
  /\ calls = 0
  /\ ref = BitsOf(data)

Init == InitWith(Buffers)

DoRead(N, s, e) ==
  \E r \in {ReadField(data, N, s, e, build)} :
     /\ pc' = Outcome(r.panic)
     /\ op' = "read"
     /\ T' = N
     /\ start' = s
     /\ end' = e
     /\ pre' = data
     /\ result' = r.v
     /\ touched' = r.touched
     /\ reason' = r.panic
     /\ value' = {}
     /\ fin' = NoFin
     /\ calls' = calls + 1
     /\ UNCHANGED <<build, data, ref>>

DoWrite(N, s, e, val) ==
  \E w \in {WriteField(data, N, s, e, val, build)} :
     /\ pc' = Outcome(w.panic)
     /\ op' = "write"
     /\ T' = N
     /\ start' = s
     /\ end' = e
     /\ value' = val
     /\ pre' = data
     /\ data' = w.data
     /\ fin' = [end |-> w.end, value |-> w.value, iters |-> w.iters]
     /\ touched' = w.touched
     /\ reason' = w.panic
     /\ result' = {}
     /\ calls' = calls + 1
     /\ ref' = IF w.panic = "none" THEN RefWrite(ref, s, e, val) ELSE ref
     /\ UNCHANGED build

RangeExprs(len, N) ==
  UNION {RangeForms(p[1], p[1] + p[2], len) :
           p \in {q \in (0..(8 * len + 1)) \X FieldWidths(N) : q[1] + q[2] >= 0}}

Ranges(len, N) == {<<StartOf(f[1]), EndOf(f[2], len)>> : f \in RangeExprs(len, N)}

ReadCall ==
  /\ pc = "idle"
  /\ calls = 0
  /\ \E N \in TypeWidths :
       \E r \in Ranges(Len(data), N) : DoRead(N, r[1], r[2])

WriteCall ==
  /\ pc = "idle"
  /\ calls = 0
  /\ \E N \in TypeWidths :
       \E r \in Ranges(Len(data), N) :
         \E val \in FieldValues(N, r[2] - r[1]) : DoWrite(N, r[1], r[2], val)

BitmaskCall ==
  /\ pc = "idle"
  /\ calls = 0
  /\ \E N \in TypeWidths : \E w \in 0..(N + 1) :
       LET m == Bitmask(N, w, build)
       IN /\ pc' = Outcome(m.panic)
          /\ op' = "bitmask"
          /\ T' = N
          /\ start' = 0
          /\ end' = w
          /\ result' = m.v
          /\ reason' = m.panic
          /\ pre' = data
          /\ value' = {}
          /\ fin' = NoFin
          /\ touched' = {}
          /\ calls' = calls + 1
          /\ UNCHANGED <<build, data, ref>>

Next == ReadCall \/ WriteCall \/ BitmaskCall

Spec == Init /\ [][Next]_vars

-----------------------------------------------------------------------------
(* Sequences of writes on the test buffer (tests::test_write_field)        *)

NarrowTypes == {N \in TypeWidths : N <= UsizeBits}

SeqRanges ==
  {<<Inc(4), Exc(8)>>, <<Inc(0), Exc(8)>>, <<Inc(12), Exc(20)>>, <<Unb, Unb>>,
   <<Inc(7), Exc(8)>>, <<Inc(8), Inc(8)>>, <<Inc(30), Exc(31)>>,
   <<Inc(20), Inc(27)>>, <<Inc(4), Exc(20)>>, <<Inc(12), Exc(24)>>,
   <<Inc(25), Inc(25)>>, <<Inc(3), Exc(14)>>}

SeqValues(w) ==
  {{}, 0..(w - 1), {k \in 0..(w - 1) : k % 3 = 0 \/ k % 8 = 5}}
    \cup (IF w = 8 THEN {{2, 3, 4, 5, 7}} ELSE {})

InitSeq == InitWith({TestBuffer})

SeqWrite ==
  /\ pc = "idle"
  /\ calls < MaxCalls
  /\ \E f \in SeqRanges :
       \E N \in {M \in NarrowTypes : EndOf(f[2], Len(data)) - StartOf(f[1]) <= M} :
         \E val \in SeqValues(EndOf(f[2], Len(data)) - StartOf(f[1])) :
           DoWrite(N, StartOf(f[1]), EndOf(f[2], Len(data)), val)

Return ==
  /\ pc = "returned"
  /\ pc' = "idle"
  /\ op' = "none"
  /\ T' = 8
  /\ start' = 0
  /\ end' = 0
  /\ value' = {}
  /\ result' = {}
  /\ fin' = NoFin
  /\ touched' = {}
  /\ pre' = data
  /\ UNCHANGED <<build, data, reason, calls, ref>>

NextSeq == SeqWrite \/ Return

SpecSeq == InitSeq /\ [][NextSeq]_vars

-----------------------------------------------------------------------------
(* Properties                                                              *)

ValidRange == 0 <= start /\ start < end /\ end <= 8 * Len(pre)

ValidRead == op = "read" /\ ValidRange /\ end - start <= T

ValidWrite ==
  /\ op = "write"
  /\ ValidRange
  /\ end - start <= T
  /\ value \subseteq 0..(end - start - 1)

\* C1: a write of an in-range value to a valid range with T of 8, 16, 32 or
\* 64 bits returns, and read_field::<T> of the same range on the written
\* buffer returns exactly that value.
RoundTrip ==
  (ValidWrite /\ T \in NarrowTypes) =>
    /\ pc = "returned"
    /\ ReadField(data, T, start, end, build).panic = "none"
    /\ ReadField(data, T, start, end, build).v = value

\* a u8 written over bits 4..12 (two bytes for a one-byte type) and read back
RoundTripWitness ==
  /\ ValidWrite
  /\ pc = "returned"
  /\ T = 8 /\ start = 4 /\ end = 12
  /\ value = {0, 3, 5, 6}
  /\ data # pre
  /\ ReadField(data, T, start, end, build).v = value

\* C2: a write that returns leaves every bit outside [start, end) as it was
\* and stores to no byte below start / 8 or above (end - 1) / 8.
WriteFrame ==
  (op = "write" /\ pc = "returned") =>
    /\ Len(data) = Len(pre)
    /\ \A i \in 0..(8 * Len(pre) - 1) :
         (i < start \/ i >= end) => Bit(data, i) = Bit(pre, i)
    /\ \A k \in touched : FirstByte(start) <= k /\ k <= LastByte(end)

\* a write that starts and ends inside bytes whose other bits are not all 0
WriteFrameWitness ==
  /\ ValidWrite
  /\ pc = "returned"
  /\ start % 8 # 0 /\ end % 8 # 0
  /\ FirstByte(start) < LastByte(end)
  /\ value = {}
  /\ data # pre
  /\ data[FirstByte(start) + 1] # 0
  /\ data[LastByte(end) + 1] # 0

\* C3: a read of a valid range with T of 8, 16, 32 or 64 bits returns the
\* value whose bit j is bit (end - 1 - j) of the buffer, for j < end - start:
\* the sum over i in [start, end) of Bit(B, i) * 2^(end - 1 - i).
ReadMatchesReference ==
  (ValidRead /\ T \in NarrowTypes) =>
    /\ pc = "returned"
    /\ result = RefRead(pre, start, end)

\* read_field::<u16>(4..20) of [0x12, 0x34, 0x56, ..] is 0x2345
ReadMatchesReferenceWitness ==
  /\ ValidRead
  /\ pc = "returned"
  /\ T = 16 /\ start = 4 /\ end = 20
  /\ SubSeq(pre, 1, 3) = <<18, 52, 86>>
  /\ result = {0, 2, 6, 8, 9, 13}

\* C4: after any sequence of valid writes (T of 8, 16, 32 or 64 bits, values
\* in range, ranges overlapping or not) no write has panicked and the buffer
\* is the reference bit array, in which each write set bit i of [start, end)
\* to bit (end - 1 - i) of its value and changed nothing else.
WriteRefinesBitArray ==
  /\ pc # "panicked"
  /\ BitsOf(data) = ref
  /\ (op = "write" /\ pre = TestBuffer /\ start = 12 /\ end = 20
        /\ value = {2, 3, 4, 5, 7})
       => data = <<18, 59, 198, 120>>

\* the second write of a sequence, 0xBC to 12..20, over bits an earlier
\* write changed
WriteRefinesBitArrayWitness ==
  /\ calls = 2
  /\ pc = "returned"
  /\ op = "write"
  /\ start = 12 /\ end = 20
  /\ value = {2, 3, 4, 5, 7}
  /\ pre[2] % 16 # 4
  /\ data[2] % 16 = 11 /\ data[3] \div 16 = 12

\* C5: read_field and write_field panic on every range with start >= end.
EmptyRangeRejected ==
  (op \in {"read", "write"} /\ start >= end) => pc = "panicked"

\* C6: on a range with start < end, read_field panics when the range is
\* wider than T or ends past the buffer, and write_field panics when the
\* range is wider than T, the value exceeds 2^(end - start) - 1, or the range
\* ends past the buffer.
ViolationsRejected ==
  /\ (op = "read" /\ start < end /\ (end - start > T \/ end > 8 * Len(pre)))
       => pc = "panicked"
  /\ (op = "write" /\ start < end
        /\ (\/ end - start > T
            \/ ~(value \subseteq 0..(end - start - 1))
            \/ end > 8 * Len(pre)))
       => pc = "panicked"

\* 0x10 into 4..8 with a u8: the value assertion fails
ViolationsRejectedWitness ==
  /\ op = "write"
  /\ T = 8 /\ start = 4 /\ end = 8
  /\ value = {4}
  /\ pc = "panicked"
  /\ reason = "assert"

\* C7: a write that panics has stored no byte: the buffer is as it was
\* before the call.
NoPartialWrite ==
  (op = "write" /\ pc = "panicked") => (data = pre /\ touched = {})

\* a write whose range starts inside the buffer and ends past it
NoPartialWriteWitness ==
  /\ op = "write"
  /\ pc = "panicked"
  /\ reason = "index"
  /\ start < end
  /\ start < 8 * Len(pre) - 8
  /\ end > 8 * Len(pre)
  /\ end - start <= T
  /\ value = 0..(end - start - 1)
  /\ data = pre

\* C8: the same write applied again to the written buffer returns and leaves
\* the buffer as the first write left it.
WriteIdempotent ==
  (op = "write" /\ pc = "returned") =>
    /\ WriteField(data, T, start, end, value, build).panic = "none"
    /\ WriteField(data, T, start, end, value, build).data = data

\* a write across a byte boundary that changed the buffer
WriteIdempotentWitness ==
  /\ ValidWrite
  /\ pc = "returned"
  /\ FirstByte(start) < LastByte(end)
  /\ value # {}
  /\ data # pre
  /\ WriteField(data, T, start, end, value, build).data = data

\* C9: bitmask::<T>(w) returns 2^w - 1 for every T of 8, 16, 32, 64 or 128
\* bits and every 0 < w <= bits(T), and never overflows.
BitmaskLowBits ==
  (op = "bitmask" /\ 0 < end /\ end <= T) =>
    /\ pc = "returned"
    /\ result = 0..(end - 1)

\* C10: a call on a valid range touches last_byte - first_byte + 1 bytes at
\* most, which is at most ceil((end - start) / 8) + 1; it returns when T is
\* no wider than usize; and a write that returns has run one iteration per
\* covered byte, down to first_byte, leaving end = start and value = 0.
BoundedWork ==
  /\ ((ValidRead \/ ValidWrite) /\ T \in NarrowTypes) => pc = "returned"
  /\ (ValidRead \/ ValidWrite) =>
       /\ touched \subseteq FirstByte(start)..LastByte(end)
       /\ Cardinality(touched) <= CeilDiv8(end - start) + 1
  /\ (ValidRead /\ pc = "returned") =>
       touched = FirstByte(start)..LastByte(end)
  /\ (ValidWrite /\ pc = "returned") =>
       /\ touched = FirstByte(start)..LastByte(end)
       /\ fin.iters = LastByte(end) - FirstByte(start) + 1
       /\ fin.iters <= CeilDiv8(end - start) + 1
       /\ fin.end = start
       /\ fin.value = {}

\* a u8 written to a whole byte: one iteration, whose shift is by the full
\* width of T
BoundedWorkWitness ==
  /\ ValidWrite
  /\ pc = "returned"
  /\ T = 8 /\ start = 8 /\ end = 16
  /\ value = 0..7
  /\ fin.value = {}
  /\ fin.end = 8
  /\ fin.iters = 1

====
